---- MODULE Spec2Model ----
(***************************************************************************)
(* Model of speech_to_numbers.py: the number-word normalizer               *)
(* (replace_number_words), the digit highlighter (highlight_numbers), the  *)
(* retry loop of transcribe_file and the attempt loop of run.              *)
(*                                                                         *)
(* A text is a sequence of one-character strings.  The number-word parser  *)
(* is the word2number library the program imports (w2n.word_to_num); it is *)
(* modelled by what it computes, including the way it fails.               *)
(***************************************************************************)
EXTENDS Integers, Sequences, FiniteSets, TLC

VARIABLES
    text, language, pc, tokens, i, out, result, calls, pass, first,
    hl_text, hl_result, hl_pc,
    retries, attempt, outcomes, tf_ret, tf_pc,
    choice, lang_code, run_language, run_attempt, run_text, run_pc,
    attempts_made, converted_with, output_txt

norm_vars == <<text, language, pc, tokens, i, out, result, calls, pass, first>>
hl_vars   == <<hl_text, hl_result, hl_pc>>
tf_vars   == <<retries, attempt, outcomes, tf_ret, tf_pc>>
run_vars  == <<choice, lang_code, run_language, run_attempt, run_text, run_pc,
               attempts_made, converted_with, output_txt>>
vars      == <<norm_vars, hl_vars, tf_vars, run_vars>>

(***************************************************************************)
(* Bounds of the explored inputs.                                          *)
(***************************************************************************)
MaxPieces  == 4
MaxHlLen   == 4
MaxRetries == 4
MaxRunPieces == 3

(***************************************************************************)
(* Characters.                                                             *)
(***************************************************************************)
Digit == {"0","1","2","3","4","5","6","7","8","9"}
LowerLetter == {"a","b","c","d","e","f","g","h","i","j","k","l","m",
                "n","o","p","q","r","s","t","u","v","w","x","y","z"}
UpperLetter == {"E","F","K","N","R","S","T","U","Z"}
ESC == "ESC"

\* regex class \w
IsWordChar(c) == c \in Digit \cup LowerLetter \cup UpperLetter \cup {"_"}
\* regex class \s
IsSpaceChar(c) == c = " "

\* str.lower() on one character
LowerChar(c) ==
    CASE c = "E" -> "e" [] c = "F" -> "f" [] c = "N" -> "n"
      [] c = "K" -> "k" [] c = "R" -> "r" [] c = "S" -> "s" [] c = "T" -> "t"
      [] c = "U" -> "u" [] c = "Z" -> "z" [] OTHER -> c
Lower(s) == [k \in 1..Len(s) |-> LowerChar(s[k])]

\* str.strip()
RECURSIVE LStrip(_)
LStrip(s) == IF s # <<>> /\ IsSpaceChar(Head(s)) THEN LStrip(Tail(s)) ELSE s
RECURSIVE RStrip(_)
RStrip(s) ==
    IF s # <<>> /\ IsSpaceChar(s[Len(s)]) THEN RStrip(SubSeq(s, 1, Len(s) - 1)) ELSE s
Strip(s) == RStrip(LStrip(s))

\* ''.join(parts)
RECURSIVE Concat(_)
Concat(parts) == IF parts = <<>> THEN <<>> ELSE Head(parts) \o Concat(Tail(parts))

\* ' '.join(parts)
RECURSIVE JoinSpace(_)
JoinSpace(parts) ==
    IF parts = <<>> THEN <<>>
    ELSE IF Len(parts) = 1 THEN parts[1]
    ELSE parts[1] \o <<" ">> \o JoinSpace(Tail(parts))

\* str.split(): the maximal runs of non-space characters
RECURSIVE SplitFrom(_, _, _)
SplitFrom(s, k, cur) ==
    IF k > Len(s) THEN (IF cur = <<>> THEN <<>> ELSE <<cur>>)
    ELSE IF IsSpaceChar(s[k])
         THEN (IF cur = <<>> THEN <<>> ELSE <<cur>>) \o SplitFrom(s, k + 1, <<>>)
         ELSE SplitFrom(s, k + 1, Append(cur, s[k]))
Split(s) == SplitFrom(s, 1, <<>>)

\* str.isdigit()
IsDigitStr(s) == s # <<>> /\ \A k \in 1..Len(s) : s[k] \in Digit

\* int(s) for a string of decimal digits
DigitVal(c) ==
    CASE c = "0" -> 0 [] c = "1" -> 1 [] c = "2" -> 2 [] c = "3" -> 3 [] c = "4" -> 4
      [] c = "5" -> 5 [] c = "6" -> 6 [] c = "7" -> 7 [] c = "8" -> 8 [] c = "9" -> 9
DigitChar(d) ==
    CASE d = 0 -> "0" [] d = 1 -> "1" [] d = 2 -> "2" [] d = 3 -> "3" [] d = 4 -> "4"
      [] d = 5 -> "5" [] d = 6 -> "6" [] d = 7 -> "7" [] d = 8 -> "8" [] d = 9 -> "9"
RECURSIVE ParseInt(_)
ParseInt(s) ==
    IF s = <<>> THEN 0 ELSE 10 * ParseInt(SubSeq(s, 1, Len(s) - 1)) + DigitVal(s[Len(s)])

\* str(n) for a non-negative int
RECURSIVE IntStr(_)
IntStr(n) == IF n < 10 THEN <<DigitChar(n)>> ELSE IntStr(n \div 10) \o <<DigitChar(n % 10)>>

\* str(x) for the float n + 0.d : shortest repr, at least one fractional digit
RECURSIVE StripZeros(_)
StripZeros(d) ==
    IF Len(d) > 1 /\ d[Len(d)] = "0" THEN StripZeros(SubSeq(d, 1, Len(d) - 1)) ELSE d
FloatStr(n, d) == IntStr(n) \o <<".">> \o StripZeros(d)

(***************************************************************************)
(* word2number: w2n.word_to_num and its helpers.                           *)
(***************************************************************************)
american_number_system ==
    (<<"z","e","r","o">> :> 0) @@
    (<<"o","n","e">> :> 1) @@
    (<<"t","w","o">> :> 2) @@
    (<<"t","h","r","e","e">> :> 3) @@
    (<<"f","o","u","r">> :> 4) @@
    (<<"f","i","v","e">> :> 5) @@
    (<<"s","i","x">> :> 6) @@
    (<<"s","e","v","e","n">> :> 7) @@
    (<<"e","i","g","h","t">> :> 8) @@
    (<<"n","i","n","e">> :> 9) @@
    (<<"t","e","n">> :> 10) @@
    (<<"e","l","e","v","e","n">> :> 11) @@
    (<<"t","w","e","l","v","e">> :> 12) @@
    (<<"t","h","i","r","t","e","e","n">> :> 13) @@
    (<<"f","o","u","r","t","e","e","n">> :> 14) @@
    (<<"f","i","f","t","e","e","n">> :> 15) @@
    (<<"s","i","x","t","e","e","n">> :> 16) @@
    (<<"s","e","v","e","n","t","e","e","n">> :> 17) @@
    (<<"e","i","g","h","t","e","e","n">> :> 18) @@
    (<<"n","i","n","e","t","e","e","n">> :> 19) @@
    (<<"t","w","e","n","t","y">> :> 20) @@
    (<<"t","h","i","r","t","y">> :> 30) @@
    (<<"f","o","r","t","y">> :> 40) @@
    (<<"f","i","f","t","y">> :> 50) @@
    (<<"s","i","x","t","y">> :> 60) @@
    (<<"s","e","v","e","n","t","y">> :> 70) @@
    (<<"e","i","g","h","t","y">> :> 80) @@
    (<<"n","i","n","e","t","y">> :> 90) @@
    (<<"h","u","n","d","r","e","d">> :> 100) @@
    (<<"t","h","o","u","s","a","n","d">> :> 1000) @@
    (<<"m","i","l","l","i","o","n">> :> 1000000) @@
    (<<"b","i","l","l","i","o","n">> :> 1000000000) @@
    (<<"p","o","i","n","t">> :> ".")

decimal_words ==
    { <<"z","e","r","o">>, <<"o","n","e">>, <<"t","w","o">>, <<"t","h","r","e","e">>,
      <<"f","o","u","r">>, <<"f","i","v","e">>, <<"s","i","x">>, <<"s","e","v","e","n">>,
      <<"e","i","g","h","t">>, <<"n","i","n","e">> }

W_hundred  == <<"h","u","n","d","r","e","d">>
W_thousand == <<"t","h","o","u","s","a","n","d">>
W_million  == <<"m","i","l","l","i","o","n">>
W_billion  == <<"b","i","l","l","i","o","n">>
W_point    == <<"p","o","i","n","t">>

\* list.count(w), list.index(w) (0-based, -1 when absent), list[a:b]
Count(ws, w) == Cardinality({k \in 1..Len(ws) : ws[k] = w})
IndexOf(ws, w) ==
    IF \E k \in 1..Len(ws) : ws[k] = w
    THEN (CHOOSE k \in 1..Len(ws) : ws[k] = w /\ \A m \in 1..(k - 1) : ws[m] # w) - 1
    ELSE -1
Slice(ws, a, b) == SubSeq(ws, a + 1, b)

\* Outcomes of a call: a value (int, or float int.frac) or an exception
Raised(kind)  == [kind |-> kind, int |-> 0, frac |-> <<>>, isfloat |-> FALSE]
IntValue(n)   == [kind |-> "ok", int |-> n, frac |-> <<>>, isfloat |-> FALSE]
FloatValue(n, d) == [kind |-> "ok", int |-> n, frac |-> d, isfloat |-> TRUE]

\* the arithmetic of number_formation on the values of the words; -1 stands
\* for the IndexError of numbers[0] on an empty list
formation_of(numbers) ==
    IF Len(numbers) = 4 THEN (numbers[1] * numbers[2]) + numbers[3] + numbers[4]
    ELSE IF Len(numbers) = 3 THEN numbers[1] * numbers[2] + numbers[3]
    ELSE IF Len(numbers) = 2
         THEN (IF \E k \in 1..2 : numbers[k] = 100
               THEN numbers[1] * numbers[2]
               ELSE numbers[1] + numbers[2])
    ELSE IF Len(numbers) = 0 THEN -1
    ELSE numbers[1]

number_formation(number_words) ==
    formation_of([k \in 1..Len(number_words) |-> american_number_system[number_words[k]]])

\* get_decimal_sum: the digits of the fraction, or <<>> for the int 0 it returns
\* when a word after 'point' is not a digit word
get_decimal_sum(decimal_digit_words) ==
    IF \E k \in 1..Len(decimal_digit_words) : decimal_digit_words[k] \notin decimal_words
    THEN <<>>
    ELSE [k \in 1..Len(decimal_digit_words) |->
            DigitChar(american_number_system[decimal_digit_words[k]])]

\* total_sum once the groups are formed; IndexError when a multiplier group
\* was empty
sum_of_groups(clean_numbers, billions, millions, thousands, hundreds, decimal_digits) ==
    IF Len(clean_numbers) > 1 /\ (billions = -1 \/ millions = -1 \/ thousands = -1)
    THEN Raised("IndexError")
    ELSE IF decimal_digits # <<>>
    THEN FloatValue(billions * 1000000000 + millions * 1000000 + thousands * 1000 + hundreds,
                    decimal_digits)
    ELSE IntValue(billions * 1000000000 + millions * 1000000 + thousands * 1000 + hundreds)

\* the groups before 'billion', 'million' and 'thousand' and the rest
total_sum(clean_numbers, billion_index, million_index, thousand_index, decimal_digits) ==
    IF Len(clean_numbers) = 0 THEN sum_of_groups(clean_numbers, 0, 0, 0, 0, decimal_digits)
    ELSE IF Len(clean_numbers) = 1
    THEN sum_of_groups(clean_numbers, 0, 0, 0, american_number_system[clean_numbers[1]],
                       decimal_digits)
    ELSE sum_of_groups(clean_numbers,
        IF billion_index > -1
        THEN number_formation(Slice(clean_numbers, 0, billion_index)) ELSE 0,
        IF million_index > -1
        THEN number_formation(Slice(clean_numbers,
                                    IF billion_index > -1 THEN billion_index + 1 ELSE 0,
                                    million_index))
        ELSE 0,
        IF thousand_index > -1
        THEN number_formation(Slice(clean_numbers,
                                    IF million_index > -1 THEN million_index + 1
                                    ELSE IF billion_index > -1 THEN billion_index + 1
                                    ELSE 0,
                                    thousand_index))
        ELSE 0,
        IF thousand_index > -1 /\ thousand_index # Len(clean_numbers) - 1
        THEN number_formation(Slice(clean_numbers, thousand_index + 1, Len(clean_numbers)))
        ELSE IF million_index > -1 /\ million_index # Len(clean_numbers) - 1
        THEN number_formation(Slice(clean_numbers, million_index + 1, Len(clean_numbers)))
        ELSE IF billion_index > -1 /\ billion_index # Len(clean_numbers) - 1
        THEN number_formation(Slice(clean_numbers, billion_index + 1, Len(clean_numbers)))
        ELSE IF thousand_index = -1 /\ million_index = -1 /\ billion_index = -1
        THEN number_formation(clean_numbers)
        ELSE 0,
        decimal_digits)

\* the order test of 'billion', 'million' and 'thousand', then the sum
parse_clean(clean_numbers, clean_decimal_numbers) ==
    IF (IndexOf(clean_numbers, W_thousand) > -1
        /\ (IndexOf(clean_numbers, W_thousand) < IndexOf(clean_numbers, W_million)
            \/ IndexOf(clean_numbers, W_thousand) < IndexOf(clean_numbers, W_billion)))
       \/ (IndexOf(clean_numbers, W_million) > -1
           /\ IndexOf(clean_numbers, W_million) < IndexOf(clean_numbers, W_billion))
    THEN Raised("ValueError")
    ELSE total_sum(clean_numbers, IndexOf(clean_numbers, W_billion),
                   IndexOf(clean_numbers, W_million), IndexOf(clean_numbers, W_thousand),
                   get_decimal_sum(clean_decimal_numbers))

\* the tests on the number words of the sentence, then the split at 'point'
parse_words(clean) ==
    IF Len(clean) = 0 THEN Raised("ValueError")
    ELSE IF Count(clean, W_thousand) > 1 \/ Count(clean, W_million) > 1
            \/ Count(clean, W_billion) > 1 \/ Count(clean, W_point) > 1
    THEN Raised("ValueError")
    ELSE IF Count(clean, W_point) = 1
    THEN parse_clean(Slice(clean, 0, IndexOf(clean, W_point)),
                     Slice(clean, IndexOf(clean, W_point) + 1, Len(clean)))
    ELSE parse_clean(clean, <<>>)

\* number_sentence.replace('-', ' ').lower()
prepare_sentence(number_sentence) ==
    Lower([k \in 1..Len(number_sentence) |->
             IF number_sentence[k] = "-" THEN " " ELSE number_sentence[k]])

number_words_of(sentence) ==
    SelectSeq(Split(Strip(sentence)), LAMBDA w : w \in DOMAIN american_number_system)

word_to_num(number_sentence) ==
    IF IsDigitStr(prepare_sentence(number_sentence))
    THEN IntValue(ParseInt(prepare_sentence(number_sentence)))
    ELSE parse_words(number_words_of(prepare_sentence(number_sentence)))

\* str(num)
NumStr(v) == IF v.isfloat THEN FloatStr(v.int, v.frac) ELSE IntStr(v.int)

(***************************************************************************)
(* replace_number_words.                                                   *)
(***************************************************************************)
\* the test of line 162 passes: language is 'en'
TreatsRussianAsEnglish(lang) == lang \in { <<"e","n">>, <<"r","u">> }
IsSupportedLanguage(lang) == lang = <<"e","n">>

\* re.findall(r"\w+|[^\w\s]", text)
RECURSIVE FindTokens(_, _, _)
FindTokens(s, k, cur) ==
    IF k > Len(s) THEN (IF cur = <<>> THEN <<>> ELSE <<cur>>)
    ELSE IF IsWordChar(s[k]) THEN FindTokens(s, k + 1, Append(cur, s[k]))
    ELSE (IF cur = <<>> THEN <<>> ELSE <<cur>>)
         \o (IF IsSpaceChar(s[k]) THEN <<>> ELSE << <<s[k]>> >>)
         \o FindTokens(s, k + 1, <<>>)
tokenize(s) == FindTokens(s, 1, <<>>)

\* re.fullmatch(r"\w+", t)
IsWordToken(t) == t # <<>> /\ \A k \in 1..Len(t) : IsWordChar(t[k])
\* re.fullmatch(r"[^\w]", t)
IsSeparatorUnit(t) == Len(t) = 1 /\ ~IsWordChar(t[1])

\* phrase = ' '.join(tokens[i:j]).lower()
Phrase(toks, a, b) == Lower(JoinSpace(Slice(toks, a, b)))

\* for j in range(len(tokens), i, -1): the first window that does not raise
\* ValueError decides; tried counts the calls of the parser
RECURSIVE TryWindows(_, _, _, _)
RECURSIVE WindowOutcome(_, _, _, _, _)
WindowOutcome(toks, a, j, tried, num) ==
    IF num.kind = "ok"
    THEN [kind |-> "match", j |-> j, unit |-> NumStr(num), tried |-> tried + 1]
    ELSE IF num.kind = "ValueError"
    THEN TryWindows(toks, a, j - 1, tried + 1)
    ELSE [kind |-> "raise", j |-> a, unit |-> <<>>, tried |-> tried + 1]
TryWindows(toks, a, j, tried) ==
    IF j <= a THEN [kind |-> "nomatch", j |-> a + 1, unit |-> toks[a + 1], tried |-> tried]
    ELSE WindowOutcome(toks, a, j, tried, word_to_num(Phrase(toks, a, j)))

\* one iteration of `while i < len(tokens)`
WalkStep(toks, a) ==
    IF IsWordToken(toks[a + 1])
    THEN TryWindows(toks, a, Len(toks), 0)
    ELSE [kind |-> "separator", j |-> a + 1, unit |-> toks[a + 1], tried |-> 0]

\* ''.join(t if re.fullmatch(r"[^\w]", t) else t + ' ' for t in out).strip()
Reassemble(units) ==
    Strip(Concat([k \in 1..Len(units) |->
                    IF IsSeparatorUnit(units[k]) THEN units[k] ELSE units[k] \o <<" ">>]))

\* the whole function: the returned string, or raised when an exception escapes
RECURSIVE Walk(_, _, _)
RECURSIVE AfterStep(_, _, _)
AfterStep(toks, units, step) ==
    IF step.kind = "raise" THEN [raised |-> TRUE, value |-> <<>>]
    ELSE Walk(toks, step.j, Append(units, step.unit))
Walk(toks, a, units) ==
    IF a >= Len(toks) THEN [raised |-> FALSE, value |-> Reassemble(units)]
    ELSE AfterStep(toks, units, WalkStep(toks, a))
replace_number_words(s, lang) ==
    IF ~IsSupportedLanguage(lang) THEN [raised |-> FALSE, value |-> s] ELSE Walk(tokenize(s), 0, <<>>)

(***************************************************************************)
(* Inputs of the normalizer: texts made of at most MaxPieces pieces.       *)
(***************************************************************************)
Pieces ==
    { <<" ">>, <<".">>, <<"5">>, <<"t","w","o">>, <<"T","w","o">>, <<"f","o","x">>,
      W_thousand, W_point }

RECURSIVE PieceTexts(_)
PieceTexts(n) ==
    IF n = 0 THEN { <<>> }
    ELSE LET shorter == PieceTexts(n - 1)
         IN  shorter \cup { p \o t : p \in Pieces, t \in shorter }
Texts == PieceTexts(MaxPieces)

LanguageTags == { <<"e","n">>, <<"r","u">>, <<"k","k">>, <<"E","N">> }

NotCalled == [called |-> FALSE, language |-> <<>>]
NoFile    == [written |-> FALSE, content |-> <<>>]

NormIdle ==
    /\ text = <<>> /\ language = <<>> /\ pc = "idle" /\ tokens = <<>> /\ i = 0
    /\ out = <<>> /\ result = <<>> /\ calls = 0 /\ pass = 0 /\ first = <<>>
HlIdle  == hl_text = <<>> /\ hl_result = <<>> /\ hl_pc = "idle"
TfIdle  == retries = 0 /\ attempt = 0 /\ outcomes = <<>> /\ tf_ret = <<>> /\ tf_pc = "idle"
RunIdle ==
    /\ choice = "" /\ lang_code = <<>> /\ run_language = <<>> /\ run_attempt = 0
    /\ run_text = <<>> /\ run_pc = "idle" /\ attempts_made = 0
    /\ converted_with = NotCalled /\ output_txt = NoFile

\* replace_number_words(text, language) is called
InitNorm ==
    /\ text \in Texts /\ language \in LanguageTags
    /\ pc = "call" /\ tokens = <<>> /\ i = 0 /\ out = <<>> /\ result = <<>>
    /\ calls = 0 /\ pass = 1 /\ first = <<>>
    /\ HlIdle /\ TfIdle /\ RunIdle

\* lines 162-166: the language test, then the tokenizer
Enter ==
    /\ pc = "call"
    /\ IF ~IsSupportedLanguage(language)
       THEN /\ result' = text /\ pc' = "done"
            /\ UNCHANGED <<tokens, i, out>>
       ELSE /\ tokens' = tokenize(text) /\ i' = 0 /\ out' = <<>> /\ pc' = "walk"
            /\ UNCHANGED result
    /\ UNCHANGED <<text, language, calls, pass, first, hl_vars, tf_vars, run_vars>>

\* lines 167-184: one iteration of the while loop
Step ==
    /\ pc = "walk" /\ i < Len(tokens)
    /\ \E step \in { WalkStep(tokens, i) } :
           /\ calls' = calls + step.tried
           /\ IF step.kind = "raise"
              THEN pc' = "raised" /\ UNCHANGED <<i, out>>
              ELSE pc' = "walk" /\ i' = step.j /\ out' = Append(out, step.unit)
    /\ UNCHANGED <<text, language, tokens, result, pass, first, hl_vars, tf_vars, run_vars>>

\* lines 185-187: the loop is over, the units are joined and returned
Return ==
    /\ pc = "walk" /\ i >= Len(tokens)
    /\ result' = Reassemble(out) /\ pc' = "done"
    /\ UNCHANGED <<text, language, tokens, i, out, calls, pass, first,
                   hl_vars, tf_vars, run_vars>>

\* the returned string is given to replace_number_words a second time
Again ==
    /\ pc = "done" /\ pass = 1
    /\ first' = result /\ text' = result /\ pass' = 2 /\ pc' = "call"
    /\ tokens' = <<>> /\ i' = 0 /\ out' = <<>> /\ result' = <<>> /\ calls' = 0
    /\ UNCHANGED <<language, hl_vars, tf_vars, run_vars>>

NextNorm == Enter \/ Step \/ Return \/ Again
SpecNorm == InitNorm /\ [][NextNorm]_vars

(***************************************************************************)
(* highlight_numbers.                                                      *)
(***************************************************************************)
\* colorama's Fore.YELLOW and Style.RESET_ALL
YELLOW    == <<ESC, "[", "3", "3", "m">>
RESET_ALL == <<ESC, "[", "0", "m">>

\* regex \b at position p (between s[p] and s[p + 1]; p counts from 0)
WordBoundary(s, p) ==
    LET before == p >= 1 /\ IsWordChar(s[p])
        after  == p < Len(s) /\ IsWordChar(s[p + 1])
    IN  before # after

MatchLenNoLeadingBoundary(s, p) ==
    LET lens == { k \in 1..(Len(s) - p) :
                    /\ \A m \in (p + 1)..(p + k) : s[m] \in Digit
                    /\ WordBoundary(s, p + k) }
    IN  IF lens # {} THEN CHOOSE k \in lens : \A m \in lens : m <= k ELSE 0

\* the length of the match of \b\d+\b at position p, 0 when there is none:
\* \d+ is greedy and gives characters back until the closing \b holds
MatchLen(s, p) ==
    LET lens == { k \in 1..(Len(s) - p) :
                    /\ \A m \in (p + 1)..(p + k) : s[m] \in Digit
                    /\ WordBoundary(s, p + k) }
    IN  IF WordBoundary(s, p) /\ lens # {}
        THEN CHOOSE k \in lens : \A m \in lens : m <= k
        ELSE 0

\* re.sub: scan from the left, replace every match by hl(m), copy the rest
RECURSIVE SubFrom(_, _)
SubFrom(s, p) ==
    IF p >= Len(s) THEN <<>>
    ELSE LET k == MatchLen(s, p)
         IN  IF k > 0
             THEN YELLOW \o SubSeq(s, p + 1, p + k) \o RESET_ALL \o SubFrom(s, p + k)
             ELSE <<s[p + 1]>> \o SubFrom(s, p + 1)
highlight_numbers(s) == SubFrom(s, 0)

HlChars == {"a", "1", "2", "_", " ", "."}
RECURSIVE CharTexts(_)
CharTexts(n) ==
    IF n = 0 THEN { <<>> }
    ELSE LET shorter == CharTexts(n - 1)
         IN  shorter \cup { <<c>> \o t : c \in HlChars, t \in shorter }
HlTexts == CharTexts(MaxHlLen)

\* highlight_numbers(hl_text) is called
InitHl ==
    /\ hl_text \in HlTexts /\ hl_result = <<>> /\ hl_pc = "call"
    /\ NormIdle /\ TfIdle /\ RunIdle

\* line 195
Highlight ==
    /\ hl_pc = "call"
    /\ hl_result' = highlight_numbers(hl_text) /\ hl_pc' = "done"
    /\ UNCHANGED <<hl_text, norm_vars, tf_vars, run_vars>>

NextHl == Highlight
SpecHl == InitHl /\ [][NextHl]_vars

(***************************************************************************)
(* transcribe_file: the retry loop around the recognizer.                  *)
(***************************************************************************)
\* what recognize_google can answer: a transcript, UnknownValueError (no
\* speech) or RequestError (the service failed)
RecognizedTexts == PieceTexts(1)
RecognizerOutcomes ==
    [kind : {"text"}, text : RecognizedTexts]
    \cup { [kind |-> "UnknownValueError", text |-> <<>>],
           [kind |-> "RequestError", text |-> <<>>] }

InRangeInclusive(att, r) == att <= r
\* for attempt in range(retries)
InRange(att, r) == att < r

\* transcribe_file(path, language, retries) is called
InitTf ==
    /\ retries \in 0..MaxRetries /\ attempt = 0 /\ outcomes = <<>>
    /\ tf_ret = <<>> /\ tf_pc = "prepare"
    /\ NormIdle /\ HlIdle /\ RunIdle

\* lines 90-97: the audio is converted and read, or prepare_audio raises
\* ValueError for an unsupported format
Prepare ==
    /\ tf_pc = "prepare"
    /\ \E supported \in BOOLEAN : tf_pc' = IF supported THEN "loop" ELSE "raised"
    /\ UNCHANGED <<retries, attempt, outcomes, tf_ret, norm_vars, hl_vars, run_vars>>

\* lines 98-110: one iteration of the for loop
Recognize ==
    /\ tf_pc = "loop" /\ InRange(attempt, retries)
    /\ \E o \in RecognizerOutcomes :
        /\ outcomes' = Append(outcomes, o)
        /\ IF o.kind = "text"
           THEN tf_ret' = o.text /\ tf_pc' = "returned" /\ UNCHANGED attempt
           ELSE IF o.kind = "UnknownValueError"
           THEN attempt' = attempt + 1 /\ UNCHANGED <<tf_ret, tf_pc>>
           ELSE tf_ret' = <<>> /\ tf_pc' = "returned" /\ UNCHANGED attempt
    /\ UNCHANGED <<retries, norm_vars, hl_vars, run_vars>>

\* line 111: the loop ran out
GiveUp ==
    /\ tf_pc = "loop" /\ ~InRange(attempt, retries)
    /\ tf_ret' = <<>> /\ tf_pc' = "returned"
    /\ UNCHANGED <<retries, attempt, outcomes, norm_vars, hl_vars, run_vars>>

NextTf == Prepare \/ Recognize \/ GiveUp
SpecTf == InitTf /\ [][NextTf]_vars

(***************************************************************************)
(* run: the inputs, the attempt loop, the conversion and output.txt.       *)
(***************************************************************************)
max_attempts == 2

EN_US == <<"e","n","-","U","S">>
RU_RU == <<"r","u","-","R","U">>
KK_KZ == <<"k","k","-","K","Z">>
\* LANGUAGES.get(code, 'en-US')
LanguageFor(code) ==
    CASE code = <<"e","n">> -> EN_US
      [] code = <<"r","u">> -> RU_RU
      [] code = <<"k","k">> -> KK_KZ
      [] OTHER -> EN_US

\* what the user may type at the two prompts
ChoiceInputs == {"1", "2", "3"}
LanguageInputs ==
    { <<>>, <<"e","n">>, <<"E","N"," ">>, <<"r","u">>, <<"k","k">>, <<"d","e">> }
\* input(...).strip().lower() or 'en'
LangCodeOf(typed) ==
    LET code == Lower(Strip(typed)) IN IF code = <<>> THEN <<"e","n">> ELSE code

\* what transcribe_file / transcribe_mic may return: "" or a transcript
RunTexts == PieceTexts(MaxRunPieces)

InitRun ==
    /\ choice = "" /\ lang_code = <<>> /\ run_language = <<>> /\ run_attempt = 1
    /\ run_text = <<>> /\ run_pc = "start" /\ attempts_made = 0
    /\ converted_with = NotCalled /\ output_txt = NoFile
    /\ NormIdle /\ HlIdle /\ TfIdle

\* lines 200-227: the prompts; with the microphone and no input device, run returns
ReadInputs ==
    /\ run_pc = "start"
    /\ \E c \in ChoiceInputs, typed \in LanguageInputs, devices \in BOOLEAN :
        /\ choice' = c
        /\ lang_code' = LangCodeOf(typed)
        /\ run_language' = LanguageFor(LangCodeOf(typed))
        /\ run_pc' = IF c = "2" /\ ~devices THEN "exit" ELSE "loop"
    /\ UNCHANGED <<run_attempt, run_text, attempts_made, converted_with, output_txt,
                   norm_vars, hl_vars, tf_vars>>

\* lines 229-249: one iteration of `while attempt <= max_attempts`
Attempt ==
    /\ run_pc = "loop" /\ run_attempt <= max_attempts
    /\ \/ /\ choice = "1"
          /\ \E exists \in BOOLEAN :
               IF ~exists
               THEN run_pc' = "exit" /\ UNCHANGED <<run_text, run_attempt, attempts_made>>
               ELSE \/ \E t \in RunTexts :
                         /\ run_text' = t /\ attempts_made' = attempts_made + 1
                         /\ IF t # <<>>
                            THEN run_pc' = "convert" /\ UNCHANGED run_attempt
                            ELSE run_pc' = "loop" /\ run_attempt' = run_attempt + 1
                    \/ /\ run_pc' = "raised" /\ attempts_made' = attempts_made + 1
                       /\ UNCHANGED <<run_text, run_attempt>>
       \/ /\ choice = "2"
          /\ \/ \E t \in RunTexts :
                  /\ run_text' = t /\ attempts_made' = attempts_made + 1
                  /\ IF t # <<>>
                     THEN run_pc' = "convert" /\ UNCHANGED run_attempt
                     ELSE run_pc' = "loop" /\ run_attempt' = run_attempt + 1
             \/ /\ run_pc' = "raised" /\ attempts_made' = attempts_made + 1
                /\ UNCHANGED <<run_text, run_attempt>>
       \/ /\ choice \notin {"1", "2"}
          /\ run_pc' = "exit" /\ UNCHANGED <<run_text, run_attempt, attempts_made>>
    /\ UNCHANGED <<choice, lang_code, run_language, converted_with, output_txt,
                   norm_vars, hl_vars, tf_vars>>

\* lines 251-253: every attempt came back empty
AllFailed ==
    /\ run_pc = "loop" /\ run_attempt > max_attempts
    /\ run_pc' = "exit"
    /\ UNCHANGED <<choice, lang_code, run_language, run_attempt, run_text, attempts_made,
                   converted_with, output_txt, norm_vars, hl_vars, tf_vars>>

\* lines 255-261: convert, highlight, write output.txt
Convert ==
    /\ run_pc = "convert"
    /\ converted_with' = [called |-> TRUE, language |-> lang_code]
    /\ \E converted \in { replace_number_words(run_text, lang_code) } :
           IF converted.raised
           THEN run_pc' = "raised" /\ UNCHANGED output_txt
           ELSE /\ output_txt' = [written |-> TRUE,
                                  content |-> highlight_numbers(converted.value)]
                /\ run_pc' = "done"
    /\ UNCHANGED <<choice, lang_code, run_language, run_attempt, run_text, attempts_made,
                   norm_vars, hl_vars, tf_vars>>

NextRun == ReadInputs \/ Attempt \/ AllFailed \/ Convert
SpecRun == InitRun /\ [][NextRun]_vars

(***************************************************************************)
(* Properties of replace_number_words (SpecNorm).                          *)
(***************************************************************************)
EN == <<"e","n">>

RECURSIVE IsSubsequence(_, _)
IsSubsequence(a, b) ==
    IF a = <<>> THEN TRUE
    ELSE IF b = <<>> THEN FALSE
    ELSE IF Head(a) = Head(b) THEN IsSubsequence(Tail(a), Tail(b))
    ELSE IsSubsequence(a, Tail(b))

\* a token that spells (part of) a number: a number word or a digit string
IsNumberToken(t) == Lower(t) \in DOMAIN american_number_system \/ IsDigitStr(t)
\* the separators and the words that are not number words
OtherTokens(toks) == SelectSeq(toks, LAMBDA t : ~IsNumberToken(t))

\* the reassembly the specification describes: a separator attaches to the
\* unit before it, every other adjacent pair is joined by one space
SpecJoin(units) ==
    Concat([k \in 1..Len(units) |->
              IF k > 1 /\ ~IsSeparatorUnit(units[k]) THEN <<" ">> \o units[k] ELSE units[k]])

\* the windows tokens[a:j] the parser accepts
ParsingEnds(toks, a) ==
    { j \in (a + 1)..Len(toks) : word_to_num(Phrase(toks, a, j)).kind = "ok" }
Largest(S) == CHOOSE j \in S : \A m \in S : m <= j

\* C1: replace_number_words never fails: no failure of the parser on a
\* candidate window ever propagates out of the normalizer.
C1_NeverFails == pc # "raised"

\* C2: for 'en', every separator token and every non-number word token of
\* the input appears verbatim in the output, in the original order.
C2_OtherTokensPreserved ==
    (pc = "done" /\ language = EN) => IsSubsequence(OtherTokens(tokens), tokenize(result))

\* C3: in the output every separator is attached directly to the unit before
\* it, every other pair of adjacent units is joined by exactly one space, and
\* there is no trailing space.
C3_SeparatorsAttachLeft ==
    (pc = "done" /\ language = EN) => result = SpecJoin(out)

\* C4: for 'en', normalizing the normalized text again gives the same string.
C4_Idempotent ==
    (pass = 2 /\ language = EN) => /\ pc # "raised"
                                   /\ pc = "done" => result = first

\* C5: for every language tag other than 'en' the text is returned unchanged,
\* character for character, without tokenizing it or calling the parser.
C5_OtherLanguageNoOp ==
    (language # EN /\ pc # "call") =>
        /\ pc = "done" /\ result = text
        /\ tokens = <<>> /\ i = 0 /\ out = <<>> /\ calls = 0
C5_Witness ==
    /\ language = <<"r","u">> /\ pass = 1 /\ pc = "done"
    /\ text = <<"t","w","o"," ","t","h","o","u","s","a","n","d">>

\* C6: at every word token the walk reaches, when some window starting there
\* parses, the value of the longest parsing window is emitted and the walk
\* continues at its end; when none parses the token is emitted unchanged and
\* the walk advances by one.
C6_LongestMatch ==
    [][(pc = "walk" /\ i < Len(tokens) /\ IsWordToken(tokens[i + 1])) =>
         LET ends == ParsingEnds(tokens, i)
         IN  IF ends # {}
             THEN /\ pc' = "walk" /\ i' = Largest(ends)
                  /\ out' = Append(out, NumStr(word_to_num(Phrase(tokens, i, Largest(ends)))))
             ELSE /\ pc' = "walk" /\ i' = i + 1
                  /\ out' = Append(out, tokens[i + 1])]_vars

(***************************************************************************)
(* Properties of highlight_numbers (SpecHl).                               *)
(***************************************************************************)
\* position k (from 1) lies in a run of digits with no word character on
\* either side of the run
RunStart(s, k) == s[k] \in Digit /\ (k = 1 \/ s[k - 1] \notin Digit)
RunEnd(s, k)   == s[k] \in Digit /\ (k = Len(s) \/ s[k + 1] \notin Digit)
InDelimitedRun(s, k) ==
    /\ s[k] \in Digit
    /\ LET a == CHOOSE m \in 1..k : RunStart(s, m) /\ \A n \in m..k : s[n] \in Digit
           b == CHOOSE m \in k..Len(s) : RunEnd(s, m) /\ \A n \in k..m : s[n] \in Digit
       IN  /\ a = 1 \/ ~IsWordChar(s[a - 1])
           /\ b = Len(s) \/ ~IsWordChar(s[b + 1])
WrapDelimitedRuns(s) ==
    Concat([k \in 1..Len(s) |->
              (IF InDelimitedRun(s, k) /\ RunStart(s, k) THEN YELLOW ELSE <<>>)
              \o <<s[k]>>
              \o (IF InDelimitedRun(s, k) /\ RunEnd(s, k) THEN RESET_ALL ELSE <<>>)])

IsPrefix(p, s) == Len(p) <= Len(s) /\ SubSeq(s, 1, Len(p)) = p
RECURSIVE RemoveMarkers(_)
RemoveMarkers(s) ==
    IF s = <<>> THEN <<>>
    ELSE IF IsPrefix(YELLOW, s) THEN RemoveMarkers(SubSeq(s, Len(YELLOW) + 1, Len(s)))
    ELSE IF IsPrefix(RESET_ALL, s) THEN RemoveMarkers(SubSeq(s, Len(RESET_ALL) + 1, Len(s)))
    ELSE <<Head(s)>> \o RemoveMarkers(Tail(s))

\* C7: highlight_numbers wraps exactly the maximal digit runs delimited by a
\* word boundary on both sides, never digits embedded in a larger
\* alphanumeric token, and alters no other character.
C7_HighlightsDelimitedRuns ==
    hl_pc = "done" =>
        /\ hl_result = WrapDelimitedRuns(hl_text)
        /\ RemoveMarkers(hl_result) = hl_text
        /\ (\A k \in 1..Len(hl_text) : ~InDelimitedRun(hl_text, k)) => hl_result = hl_text
C7_Witness ==
    /\ hl_pc = "done" /\ hl_result # hl_text
    /\ \E k \in 1..Len(hl_text) : hl_text[k] \in Digit /\ ~InDelimitedRun(hl_text, k)

RunOver == run_pc \in {"done", "exit", "raised"}

\* C9: at most max_attempts attempts are made, the loop stops at the first
\* non-empty text, and output.txt is written if and only if some attempt
\* returned non-empty text, with the highlighted conversion of that text.
C9_WrittenIffText ==
    /\ attempts_made <= max_attempts
    /\ run_pc = "loop" => run_text = <<>>
    /\ RunOver => (output_txt.written <=> run_text # <<>>)
    /\ output_txt.written =>
         output_txt.content =
             highlight_numbers(replace_number_words(run_text, lang_code).value)

\* C10: whenever the transcription language is English ('en-US'), the
\* conversion is called with 'en', so number words are normalized.
C10_LanguagesAgree ==
    (converted_with.called /\ run_language = EN_US) => converted_with.language = EN

====
